---- MODULE Spec2Model ----
(***************************************************************************)
(* The fault-isolation layer of the auction website: the circuit breaker   *)
(* classes that guard the gateway routes, the payment processor, the SMTP  *)
(* relay, the listings service, the database and the object store.         *)
(*                                                                         *)
(* One breaker instance is modelled at a time; Init chooses which class it *)
(* is (variant) and the options it was constructed with.  Breakers share   *)
(* no state, so the behaviour of a process is the product of the           *)
(* behaviours of its breakers.                                             *)
(*                                                                         *)
(* A Node.js process runs one callback at a time.  execute() runs          *)
(* canExecute(), totalRequests++ and the start of operation() in one turn  *)
(* of the event loop (ExecuteBegin), suspends at `await operation()`, and  *)
(* runs onSuccess()/onFailure() in a later turn (OperationSucceeds,        *)
(* OperationFails).  Several execute calls can be suspended at once.       *)
(***************************************************************************)
EXTENDS Integers, FiniteSets, Sequences, TLC

\* ------------------------------------------------------------------ bounds
MaxCallers == 2
MaxRequests == 3
MaxTicks == 3
MaxFailureThreshold == 3
MaxSuccessThreshold == 2
MaxTimeout == 2
MaxGatewayRequests == 6
MaxRouteRequests == 1

\* Most listings in one answer of the listings service.
MaxListings == 2

Callers == 1..MaxCallers

\* Date.now() at construction: epoch milliseconds, far larger than any timeout.
StartTime == MaxTimeout + 1

\* ------------------------------------------------------------- the classes
CLOSED == "CLOSED"
OPEN == "OPEN"
HALF_OPEN == "HALF_OPEN"
CircuitState == {CLOSED, OPEN, HALF_OPEN}

\* lastFailureTime: number | null
null == 0 - 1

Variants ==
  { "SimpleCircuitBreaker", "PaymentCircuitBreaker", "EmailCircuitBreaker",
    "ServiceCircuitBreaker", "DatabaseCircuitBreaker", "S3CircuitBreaker" }

\* DatabaseCircuitBreaker and S3CircuitBreaker are one text (changeState, no
\* shouldAttemptReset, no reset); the other four are another (setState, reset).
UsesChangeState(v) == v \in {"DatabaseCircuitBreaker", "S3CircuitBreaker"}

\* The classes that define trip() and forceReset().
HasAdmin(v) == v \in {"SimpleCircuitBreaker", "DatabaseCircuitBreaker", "S3CircuitBreaker"}

\* CircuitBreakerOptions, as the constructor receives them.
CircuitBreakerOptions ==
  [ failureThreshold : 1..MaxFailureThreshold,
    successThreshold : 1..MaxSuccessThreshold,
    timeout : {MaxTimeout} ]

\* The fields of a breaker right after construction.
NewBreaker ==
  [ state |-> CLOSED, failureCount |-> 0, successCount |-> 0,
    lastFailureTime |-> null, totalRequests |-> 0, totalFailures |-> 0 ]

Max(a, b) == IF a >= b THEN a ELSE b

VARIABLES
  variant,          \* the class of the breaker
  options,          \* this.options
  cb,               \* the breaker's fields
  now,              \* Date.now()
  calls,            \* calls[c]: "idle", or "running" while operation() is awaited
  lastOp,           \* the step taken last: what ran, the state it found, what it gave back
  streak,           \* failed calls in a row since the breaker was fresh (history)
  episodeSuccesses, \* successes completed in the current HALF_OPEN episode (history)
  trippedAt,        \* time of the last trip() while the breaker has stayed OPEN since (history)
  tally,            \* calls admitted, admitted calls failed, calls admitted in this HALF_OPEN episode (history)
  lastStats,        \* what getStats() returned, when the last step was getStats()
  errorRun,         \* backend answers >= 500 in a row since the breaker was fresh (history)
  serviceName,      \* the gateway route this breaker guards (a key of config.services)
  lastReq,          \* the inbound gateway request whose handling the last step finished
  circuitBreakers,  \* this.circuitBreakers of the gateway: route name -> breaker fields
  task              \* the call in progress of a function that wraps execute(): retries, fallbacks

\* The breaker and its history.
cbVars == <<variant, options, cb, now, calls, lastOp, streak, episodeSuccesses, trippedAt, tally>>

\* The gateway around it.
\* What no step of one route's traffic changes.
gwFixed == <<serviceName, circuitBreakers, task>>

gwVars == <<errorRun, gwFixed, lastReq>>

vars == <<variant, options, cb, now, calls, lastOp, streak, episodeSuccesses, trippedAt, tally,
          lastStats, errorRun, serviceName, lastReq, circuitBreakers, task>>

\* ------------------------------------------- SimpleCircuitBreaker and copies
\* (PaymentCircuitBreaker, EmailCircuitBreaker and ServiceCircuitBreaker repeat
\* these methods word for word.)  A method that mutates `this` is an operator
\* from the fields before to the fields after.

setState_keepsSuccessCount(b, newState) == [b EXCEPT !.state = newState]

setState(b, newState) ==
  LET b1 == [b EXCEPT !.state = newState]
  IN  IF newState = HALF_OPEN \/ newState = OPEN
        THEN [b1 EXCEPT !.successCount = 0]
        ELSE b1

reset_keepsFailureCount(b) ==
  setState([b EXCEPT !.successCount = 0], CLOSED)

reset(b) ==
  setState([b EXCEPT !.failureCount = 0, !.successCount = 0], CLOSED)

shouldAttemptReset_strict(b, t, o) ==
  b.lastFailureTime # null /\ (t - b.lastFailureTime) > o.timeout

shouldAttemptReset(b, t, o) ==
  b.lastFailureTime # null /\ (t - b.lastFailureTime) >= o.timeout

\* canExecute() answers and may change the state: [ok, b].
SimpleCircuitBreaker_canExecute_openAdmits(b, t, o) == [ok |-> TRUE, b |-> b]

SimpleCircuitBreaker_canExecute(b, t, o) ==
  CASE b.state = CLOSED -> [ok |-> TRUE, b |-> b]
    [] b.state = OPEN ->
         IF shouldAttemptReset(b, t, o)
           THEN [ok |-> TRUE, b |-> setState(b, HALF_OPEN)]
           ELSE [ok |-> FALSE, b |-> b]
    [] b.state = HALF_OPEN -> [ok |-> TRUE, b |-> b]
    [] OTHER -> [ok |-> FALSE, b |-> b]

SimpleCircuitBreaker_onSuccess_anyState(b, o) ==
  LET b1 == [b EXCEPT !.successCount = @ + 1]
  IN  IF b1.successCount >= o.successThreshold THEN reset(b1) ELSE b1

SimpleCircuitBreaker_onSuccess(b, o) ==
  LET b1 == [b EXCEPT !.successCount = @ + 1]
  IN  IF b1.state = HALF_OPEN
        THEN IF b1.successCount >= o.successThreshold THEN reset(b1) ELSE b1
        ELSE IF b1.state = CLOSED
               THEN [b1 EXCEPT !.failureCount = Max(0, @ - 1)]
               ELSE b1

SimpleCircuitBreaker_onFailure_uncounted(b, t, o) ==
  LET b1 == [b EXCEPT !.failureCount = @ + 1, !.lastFailureTime = t]
  IN  IF b1.state = HALF_OPEN \/ (b1.state = CLOSED /\ b1.failureCount >= o.failureThreshold)
        THEN setState(b1, OPEN)
        ELSE b1

SimpleCircuitBreaker_onFailure(b, t, o) ==
  LET b1 == [b EXCEPT !.failureCount = @ + 1,
                      !.totalFailures = @ + 1,
                      !.lastFailureTime = t]
  IN  IF b1.state = HALF_OPEN
        THEN setState(b1, OPEN)
        ELSE IF b1.state = CLOSED
               THEN IF b1.failureCount >= o.failureThreshold
                      THEN setState(b1, OPEN)
                      ELSE b1
               ELSE b1

SimpleCircuitBreaker_isHealthy(b) == b.state # OPEN

SimpleCircuitBreaker_trip_keepsTime(b, t) == setState(b, OPEN)

SimpleCircuitBreaker_trip(b, t) ==
  [setState(b, OPEN) EXCEPT !.lastFailureTime = t]

SimpleCircuitBreaker_forceReset(b) == reset(b)

\* ------------------------------------- DatabaseCircuitBreaker, S3CircuitBreaker
\* (S3CircuitBreaker repeats these methods word for word.)

changeState(b, newState) ==
  IF b.state # newState
    THEN LET b1 == [b EXCEPT !.state = newState]
         IN  IF newState = CLOSED
               THEN [b1 EXCEPT !.failureCount = 0, !.successCount = 0]
               ELSE IF newState = HALF_OPEN
                      THEN [b1 EXCEPT !.successCount = 0]
                      ELSE b1
    ELSE b

\* `this.lastFailureTime || 0`
OrZero(x) == IF x = null \/ x = 0 THEN 0 ELSE x

DatabaseCircuitBreaker_canExecute(b, t, o) ==
  CASE b.state = CLOSED -> [ok |-> TRUE, b |-> b]
    [] b.state = OPEN ->
         IF t - OrZero(b.lastFailureTime) >= o.timeout
           THEN [ok |-> TRUE, b |-> changeState(b, HALF_OPEN)]
           ELSE [ok |-> FALSE, b |-> b]
    [] b.state = HALF_OPEN -> [ok |-> TRUE, b |-> b]
    [] OTHER -> [ok |-> FALSE, b |-> b]

DatabaseCircuitBreaker_onSuccess(b, o) ==
  LET b1 == [b EXCEPT !.successCount = @ + 1]
  IN  IF b1.state = HALF_OPEN
        THEN IF b1.successCount >= o.successThreshold
               THEN changeState(b1, CLOSED)
               ELSE b1
        ELSE IF b1.state = CLOSED
               THEN [b1 EXCEPT !.failureCount = 0]
               ELSE b1

DatabaseCircuitBreaker_onFailure(b, t, o) ==
  LET b1 == [b EXCEPT !.failureCount = @ + 1,
                      !.totalFailures = @ + 1,
                      !.lastFailureTime = t]
  IN  IF b1.state = HALF_OPEN \/ b1.failureCount >= o.failureThreshold
        THEN changeState(b1, OPEN)
        ELSE b1

DatabaseCircuitBreaker_isHealthy(b) == b.state = CLOSED

DatabaseCircuitBreaker_trip(b, t) ==
  [changeState(b, OPEN) EXCEPT !.lastFailureTime = t]

DatabaseCircuitBreaker_forceReset(b) == changeState(b, CLOSED)

\* ------------------------------------------------ the method of each variant
canExecute_refusalRestartsTimeout(v, b, t, o) ==
  LET r == IF UsesChangeState(v)
             THEN DatabaseCircuitBreaker_canExecute(b, t, o)
             ELSE SimpleCircuitBreaker_canExecute(b, t, o)
  IN  IF r.ok THEN r ELSE [ok |-> FALSE, b |-> [r.b EXCEPT !.lastFailureTime = t]]

canExecute_openForever(v, b, t, o) ==
  IF b.state = OPEN THEN [ok |-> FALSE, b |-> b]
  ELSE IF UsesChangeState(v)
         THEN DatabaseCircuitBreaker_canExecute(b, t, o)
         ELSE SimpleCircuitBreaker_canExecute(b, t, o)

canExecute(v, b, t, o) ==
  IF UsesChangeState(v)
    THEN DatabaseCircuitBreaker_canExecute(b, t, o)
    ELSE SimpleCircuitBreaker_canExecute(b, t, o)

onSuccess_lateSuccessCloses(v, b, o) ==
  IF b.state = OPEN
    THEN [b EXCEPT !.state = CLOSED, !.failureCount = 0, !.successCount = 0]
    ELSE IF UsesChangeState(v)
           THEN DatabaseCircuitBreaker_onSuccess(b, o)
           ELSE SimpleCircuitBreaker_onSuccess(b, o)

onSuccess(v, b, o) ==
  IF UsesChangeState(v)
    THEN DatabaseCircuitBreaker_onSuccess(b, o)
    ELSE SimpleCircuitBreaker_onSuccess(b, o)

onFailure(v, b, t, o) ==
  IF UsesChangeState(v)
    THEN DatabaseCircuitBreaker_onFailure(b, t, o)
    ELSE SimpleCircuitBreaker_onFailure(b, t, o)

isHealthy_afterTimeout(v, b) ==
  b.state = CLOSED \/ (b.state = OPEN /\ now - b.lastFailureTime >= options.timeout)

isHealthy(v, b) ==
  IF UsesChangeState(v)
    THEN DatabaseCircuitBreaker_isHealthy(b)
    ELSE SimpleCircuitBreaker_isHealthy(b)

trip(v, b, t) ==
  IF UsesChangeState(v)
    THEN DatabaseCircuitBreaker_trip(b, t)
    ELSE SimpleCircuitBreaker_trip(b, t)

forceReset(v, b) ==
  IF UsesChangeState(v)
    THEN DatabaseCircuitBreaker_forceReset(b)
    ELSE SimpleCircuitBreaker_forceReset(b)

\* getStats() of the setState family: errorRate is the quotient
\* totalFailures / totalRequests * 100, kept as the fraction <<numerator,
\* denominator>>, and 0 before the first request.
SimpleCircuitBreaker_getStats_staleState(b, name) ==
  [ name |-> name, state |-> CLOSED, failureCount |-> b.failureCount,
    successCount |-> b.successCount, lastFailureTime |-> b.lastFailureTime,
    totalRequests |-> b.totalRequests, totalFailures |-> b.totalFailures,
    errorRate |-> IF b.totalRequests > 0
                    THEN <<b.totalFailures * 100, b.totalRequests>>
                    ELSE <<0, 1>> ]

SimpleCircuitBreaker_getStats(b, name) ==
  [ name |-> name, state |-> b.state, failureCount |-> b.failureCount,
    successCount |-> b.successCount, lastFailureTime |-> b.lastFailureTime,
    totalRequests |-> b.totalRequests, totalFailures |-> b.totalFailures,
    errorRate |-> IF b.totalRequests > 0
                    THEN <<b.totalFailures * 100, b.totalRequests>>
                    ELSE <<0, 1>> ]

\* x.toFixed(2) + '%' for x = num / den * 100: the hundredths of a percent,
\* rounded to the nearest, printed with two decimals.
ToFixed2Percent(num, den) ==
  [hundredths |-> (2 * 10000 * num + den) \div (2 * den), decimals |-> 2]

\* getStats() of the changeState family: uptime is a string, '100%' before the
\* first request.
DatabaseCircuitBreaker_getStats(b) ==
  [ state |-> b.state, failureCount |-> b.failureCount,
    successCount |-> b.successCount, totalRequests |-> b.totalRequests,
    totalFailures |-> b.totalFailures, lastFailureTime |-> b.lastFailureTime,
    uptime |-> IF b.totalRequests > 0
                 THEN ToFixed2Percent(b.totalRequests - b.totalFailures, b.totalRequests)
                 ELSE [hundredths |-> 10000, decimals |-> 0] ]

getStats(v, b, name) ==
  IF UsesChangeState(v)
    THEN DatabaseCircuitBreaker_getStats(b)
    ELSE SimpleCircuitBreaker_getStats(b, name)

\* What execute() gives its caller when canExecute() answers false.
\*   SimpleCircuitBreaker: the gateway constructs every breaker with onFallback,
\*     so execute returns onFallback's value; without it, it throws an Error
\*     whose name is left "Error".
\*   EmailCircuitBreaker: builds the error, logs it, returns Promise.resolve().
\*   the others: throw an Error named 'CircuitBreakerError'.
ThrowCircuitBreakerError == "throw CircuitBreakerError"
ThrowError == "throw Error"
ReturnFallback == "return onFallback(error, name)"
ReturnUndefined == "return undefined"

HasFallback(v) == v = "SimpleCircuitBreaker"

refusal(v) ==
  CASE v = "SimpleCircuitBreaker" ->
         IF HasFallback(v) THEN ReturnFallback ELSE ThrowError
    [] v = "EmailCircuitBreaker" -> ReturnUndefined
    [] OTHER -> ThrowCircuitBreakerError

\* execute() up to `await operation()`: the admission check and, when admitted,
\* totalRequests++.
execute_admission_uncounted(v, b, t, o) == canExecute(v, b, t, o)

execute_admission_lostUpdate(v, b, t, o) ==
  LET r == canExecute(v, b, t, o)
  IN  IF r.ok /\ \A c \in Callers : calls[c] = "idle"
        THEN [ok |-> TRUE, b |-> [r.b EXCEPT !.totalRequests = @ + 1]]
        ELSE r

execute_admission(v, b, t, o) ==
  LET r == canExecute(v, b, t, o)
  IN  IF r.ok
        THEN [ok |-> TRUE, b |-> [r.b EXCEPT !.totalRequests = @ + 1]]
        ELSE r

\* ------------------------------------------------------------ the behaviour
NoStreak == 0 - 1

\* Calls carry no data of their own, so which idle caller starts and which
\* running call completes is immaterial: the lowest idle caller starts, the
\* highest running call completes, and every number of calls in flight and
\* every order of starts and completions remains.
NextToCall(c) == \A d \in Callers : d < c => calls[d] = "running"

NextToComplete(c) == \A d \in Callers : d > c => calls[d] = "idle"

AllIdle(cs) == \A c \in Callers : cs[c] = "idle"

\* The breaker is fresh: CLOSED, failureCount = 0, nothing in flight.
Fresh(b, cs) == b.state = CLOSED /\ b.failureCount = 0 /\ AllIdle(cs)

StreakAfter(b, cs, base) == IF Fresh(b, cs) THEN 0 ELSE base

Op(name, from, ret, n) == [op |-> name, from |-> from, ret |-> ret, n |-> n]

\* trippedAt after a step that leaves the fields b2: kept while the state stays OPEN.
TrippedAtAfter(b2) == IF b2.state = OPEN THEN trippedAt ELSE null

\* Nothing admitted yet.
NoTally == [admitted |-> 0, failed |-> 0, trials |-> 0]

\* tally after a step that admits nothing and leaves the fields b2: the count
\* of trial calls is kept while the episode lasts.
TallyAfter(b2) == [tally EXCEPT !.trials = IF b2.state = HALF_OPEN THEN @ ELSE 0]

\* No inbound gateway request finished in the last step.
NoRequest == [kind |-> "none"]

\* Admitted requests are counted up to a bound: MaxRequests on a breaker called
\* directly, MaxGatewayRequests (above the gateway's failureThreshold) behind
\* the gateway.
RequestCap == IF serviceName = "none" THEN MaxRequests ELSE MaxGatewayRequests

\* No error object.
NoError == [name |-> ""]

\* No call of a wrapping function in progress or finished.
NoTask ==
  [ fn |-> "none", phase |-> "idle", attempt |-> 0, retryDelay |-> 0, invoked |-> 0,
    waits |-> << >>, thrown |-> "", outcome |-> "", error |-> NoError, cause |-> NoError,
    acks |-> 0, todo |-> 0, failedWrites |-> 0, status |-> 0, connectivityTest |-> "" ]

\* The gateway's map of breakers, where it is not followed.
NoBreakers == << >>

\* No getStats() result from the last step.
NoStats == [state |-> "none"]

Init ==
  /\ variant \in Variants
  /\ options \in CircuitBreakerOptions
  /\ cb = NewBreaker
  /\ now = StartTime
  /\ calls = [c \in Callers |-> "idle"]
  /\ lastOp = Op("new", CLOSED, "", 0)
  /\ streak = 0
  /\ episodeSuccesses = 0
  /\ trippedAt = null
  /\ tally = NoTally
  /\ lastStats = NoStats
  /\ errorRun = 0
  /\ serviceName = "none"
  /\ circuitBreakers = NoBreakers
  /\ task = NoTask
  /\ lastReq = NoRequest

\* Caller c calls execute(operation): canExecute(); refused, or totalRequests++
\* and operation() started.
ExecuteBegin(c) ==
  /\ calls[c] = "idle"
  /\ NextToCall(c)
  /\ LET r == execute_admission(variant, cb, now, options)
     IN  /\ r.ok => cb.totalRequests < RequestCap
         /\ cb' = r.b
         /\ calls' = IF r.ok THEN [calls EXCEPT ![c] = "running"] ELSE calls
         /\ lastOp' = IF r.ok
                        THEN Op("admit", cb.state, "", 0)
                        ELSE Op("refuse", cb.state, refusal(variant), 0)
         /\ streak' = IF r.ok
                        THEN IF AllIdle(calls) THEN streak ELSE NoStreak
                        ELSE streak
         /\ episodeSuccesses' =
              IF r.b.state = HALF_OPEN /\ cb.state # HALF_OPEN THEN 0 ELSE episodeSuccesses
         /\ trippedAt' = TrippedAtAfter(r.b)
         /\ tally' = IF r.ok
                       THEN [tally EXCEPT
                               !.admitted = @ + 1,
                               !.trials = IF r.b.state # HALF_OPEN THEN 0
                                          ELSE IF cb.state # HALF_OPEN THEN 1
                                          ELSE @ + 1]
                       ELSE tally
  /\ UNCHANGED <<variant, options, now>>

\* operation() of caller c resolves: onSuccess(), execute returns the result.
OperationSucceeds(c) ==
  /\ calls[c] = "running"
  /\ NextToComplete(c)
  /\ LET b2 == onSuccess(variant, cb, options)
         k == IF cb.state = HALF_OPEN THEN episodeSuccesses + 1 ELSE 0
         cs == [calls EXCEPT ![c] = "idle"]
     IN  /\ cb' = b2
         /\ calls' = cs
         /\ lastOp' = Op("success", cb.state, "return result", k)
         /\ streak' = StreakAfter(b2, cs, NoStreak)
         /\ episodeSuccesses' = IF b2.state = HALF_OPEN THEN k ELSE 0
         /\ trippedAt' = TrippedAtAfter(b2)
         /\ tally' = TallyAfter(b2)
  /\ UNCHANGED <<variant, options, now>>

\* operation() of caller c rejects: onFailure(), execute rethrows the error.
OperationFails(c) ==
  /\ calls[c] = "running"
  /\ NextToComplete(c)
  /\ LET b2 == onFailure(variant, cb, now, options)
         cs == [calls EXCEPT ![c] = "idle"]
     IN  /\ cb' = b2
         /\ calls' = cs
         /\ lastOp' = Op("failure", cb.state, "throw error", 0)
         /\ streak' = StreakAfter(b2, cs, IF streak >= 0 THEN streak + 1 ELSE NoStreak)
         /\ episodeSuccesses' = IF b2.state = HALF_OPEN THEN episodeSuccesses ELSE 0
         /\ trippedAt' = TrippedAtAfter(b2)
         /\ tally' = [TallyAfter(b2) EXCEPT !.failed = @ + 1]
  /\ UNCHANGED <<variant, options, now>>

Trip ==
  /\ HasAdmin(variant)
  /\ LET b2 == trip(variant, cb, now)
     IN  /\ cb' = b2
         /\ lastOp' = Op("trip", cb.state, "", 0)
         /\ streak' = StreakAfter(b2, calls, NoStreak)
         /\ episodeSuccesses' = IF b2.state = HALF_OPEN THEN episodeSuccesses ELSE 0
         /\ trippedAt' = IF b2.state = OPEN THEN now ELSE null
         /\ tally' = TallyAfter(b2)
  /\ UNCHANGED <<variant, options, now, calls>>

ForceReset ==
  /\ HasAdmin(variant)
  /\ LET b2 == forceReset(variant, cb)
     IN  /\ cb' = b2
         /\ lastOp' = Op("forceReset", cb.state, "", 0)
         /\ streak' = StreakAfter(b2, calls, NoStreak)
         /\ episodeSuccesses' = IF b2.state = HALF_OPEN THEN episodeSuccesses ELSE 0
         /\ trippedAt' = null
         /\ tally' = TallyAfter(b2)
  /\ UNCHANGED <<variant, options, now, calls>>

IsHealthy ==
  /\ lastOp' = Op("isHealthy", cb.state,
                  IF isHealthy(variant, cb) THEN "return true" ELSE "return false", 0)
  /\ UNCHANGED <<variant, options, cb, now, calls, streak, episodeSuccesses, trippedAt, tally>>

GetStats ==
  /\ lastStats' = getStats(variant, cb, serviceName)
  /\ lastOp' = Op("getStats", cb.state, "", 0)
  /\ UNCHANGED <<variant, options, cb, now, calls, streak, episodeSuccesses, trippedAt, tally>>

\* A millisecond passes.
Tick ==
  /\ now < StartTime + MaxTicks
  /\ now' = now + 1
  /\ lastOp' = Op("tick", cb.state, "", 0)
  /\ UNCHANGED <<variant, options, cb, calls, streak, episodeSuccesses, trippedAt, tally>>

\* A step of a breaker that is not behind the gateway and is not getStats().
Standalone == lastStats' = NoStats /\ UNCHANGED gwVars

\* One breaker on its own, called directly through execute().
Next ==
  \/ (\E c \in Callers : ExecuteBegin(c)) /\ Standalone
  \/ (\E c \in Callers : OperationSucceeds(c)) /\ Standalone
  \/ (\E c \in Callers : OperationFails(c)) /\ Standalone
  \/ Trip /\ Standalone
  \/ ForceReset /\ Standalone
  \/ IsHealthy /\ Standalone
  \/ GetStats /\ UNCHANGED gwVars
  \/ Tick /\ Standalone

Spec == Init /\ [][Next]_vars

\* ------------------------------------------------------------- ApiGateway
\* One route of the gateway: its SimpleCircuitBreaker, the requests proxied
\* through it, and the HTTP response each request is answered with.

\* The keys of config.services.
Services == {"auth", "listings"}

GatewayFailureThreshold == 5

GatewaySuccessThreshold == 2

\* The options of initializeCircuitBreakers; its timeout of 60000 ms is
\* MaxTimeout steps of the clock.
GatewayOptions ==
  [ failureThreshold |-> GatewayFailureThreshold,
    successThreshold |-> GatewaySuccessThreshold,
    timeout |-> MaxTimeout ]

\* res.status(status).json(body), with the headers set by res.set before it.
Send(status, headers, body) == [status |-> status, headers |-> headers, body |-> body]

\* What the backend may answer: a status, its headers and its body.
BackendStatuses == {200, 404, 500}

BackendHeaders == {"content-type", "set-cookie", "content-encoding"}

BackendResponse(status) ==
  [ status |-> status, statusText |-> "", headers |-> BackendHeaders,
    data |-> <<"body of the backend's answer", status>> ]

\* axios(axiosConfig) resolves with the backend's response whatever its status
\* (validateStatus: () => true), or rejects with an error that carries the
\* request and no response: connection refused, or the timeout expired.
AxiosErrorCodes == {"ECONNREFUSED", "ECONNABORTED"}

AxiosResolved(response) == [resolved |-> TRUE, response |-> response]

AxiosRejected(code) ==
  [ resolved |-> FALSE,
    error |-> [message |-> code, hasResponse |-> FALSE, hasRequest |-> TRUE] ]

\* How an awaited call ends.
Returned(value) == [threw |-> FALSE, value |-> value]

Threw(error) == [threw |-> TRUE, error |-> error]

makeServiceRequest_statusIgnored(axiosResult) ==
  IF axiosResult.resolved
    THEN Returned(axiosResult.response)
    ELSE Threw(axiosResult.error)

makeServiceRequest(axiosResult) ==
  IF axiosResult.resolved
    THEN IF axiosResult.response.status >= 500
           THEN Threw([ message |-> "Service error", hasResponse |-> FALSE,
                        hasRequest |-> FALSE ])
           ELSE Returned(axiosResult.response)
    ELSE Threw(axiosResult.error)

onFallback_unnamed(name, t) ==
  [ status |-> 503,
    data |-> [ error |-> "Service Temporarily Unavailable",
               message |-> "The service is currently experiencing issues. Please try again later.",
               serviceName |-> "",
               timestamp |-> t,
               retryAfter |-> "60 seconds" ] ]

onFallback(name, t) ==
  [ status |-> 503,
    data |-> [ error |-> "Service Temporarily Unavailable",
               message |-> <<"The ", name, " service is currently experiencing issues. Please try again later.">>,
               serviceName |-> name,
               timestamp |-> t,
               retryAfter |-> "60 seconds" ] ]

handleServiceError_silent(name, error, t) ==
  IF error.hasResponse
    THEN <<Send(error.response.status, {}, error.response.data)>>
    ELSE IF error.hasRequest
           THEN << >>
           ELSE <<Send(500, {}, [ error |-> "Internal Server Error",
                                  message |-> "Failed to proxy request",
                                  timestamp |-> t ])>>

handleServiceError_noRequestBranch(name, error, t) ==
  IF error.hasResponse
    THEN <<Send(error.response.status, {}, error.response.data)>>
    ELSE <<Send(500, {}, [ error |-> "Internal Server Error",
                           message |-> "Failed to proxy request",
                           timestamp |-> t ])>>

\* handleServiceError: the responses it sends, in order.
handleServiceError(name, error, t) ==
  IF error.hasResponse
    THEN <<Send(error.response.status, {}, error.response.data)>>
    ELSE IF error.hasRequest
           THEN <<Send(503, {}, [ error |-> "Service Unavailable",
                                  message |-> <<name, " service is currently unavailable">>,
                                  timestamp |-> t ])>>
           ELSE <<Send(500, {}, [ error |-> "Internal Server Error",
                                  message |-> "Failed to proxy request",
                                  timestamp |-> t ])>>

\* The body of proxyRequest's try block after execute has returned `result`:
\* the first test is true of the fallback's object and of an axios response
\* alike, both having a status and a data property.
proxyRequest_respond(result) ==
  IF "status" \in DOMAIN result /\ "data" \in DOMAIN result
    THEN <<Send(result.status, {}, result.data)>>
    ELSE IF "status" \in DOMAIN result /\ result.status # 0 /\ "data" \in DOMAIN result
           THEN <<Send(result.status,
                       IF "headers" \in DOMAIN result
                         THEN result.headers \ {"content-encoding"}
                         ELSE {},
                       result.data)>>
           ELSE <<Send(200, {}, result)>>

\* proxyRequest once execute has settled: the responses sent, and whether an
\* exception leaves proxyRequest.
proxyRequest(name, settled, t) ==
  [ sent |-> IF settled.threw
               THEN handleServiceError(name, settled.error, t)
               ELSE proxyRequest_respond(settled.value),
    escaped |-> FALSE ]

NoBackend == [status |-> 0]

\* A request whose handling has finished.
Finished(kind, backend, handling, opened) ==
  [ kind |-> kind, backend |-> backend, sent |-> handling.sent,
    escaped |-> handling.escaped, opened |-> opened ]

GatewayInit ==
  /\ variant = "SimpleCircuitBreaker"
  /\ options = GatewayOptions
  /\ cb = NewBreaker
  /\ now = StartTime
  /\ calls = [c \in Callers |-> "idle"]
  /\ lastOp = Op("new", CLOSED, "", 0)
  /\ streak = 0
  /\ episodeSuccesses = 0
  /\ trippedAt = null
  /\ tally = NoTally
  /\ lastStats = NoStats
  /\ errorRun = 0
  /\ serviceName \in Services
  /\ circuitBreakers = NoBreakers
  /\ task = NoTask
  /\ lastReq = NoRequest

\* A request on a path of the route: proxyRequest up to the await of axios, or,
\* the breaker refusing, to the fallback's response.
ProxyRequestBegin(c) ==
  /\ ExecuteBegin(c)
  /\ lastReq' = IF calls'[c] = "running"
                  THEN NoRequest
                  ELSE Finished("breaker open", NoBackend,
                                proxyRequest(serviceName,
                                             Returned(onFallback(serviceName, now)), now),
                                FALSE)
  /\ errorRun' = IF streak' = NoStreak THEN NoStreak ELSE errorRun
  /\ lastStats' = NoStats
  /\ UNCHANGED gwFixed

\* The backend answers: makeServiceRequest returns the response or throws,
\* execute records the success or the failure, proxyRequest responds.
BackendAnswers(c) ==
  \E status \in BackendStatuses :
    LET response == BackendResponse(status)
        settled == makeServiceRequest(AxiosResolved(response))
    IN  /\ IF settled.threw THEN OperationFails(c) ELSE OperationSucceeds(c)
        /\ lastReq' = Finished(IF settled.threw THEN "backend 5xx" ELSE "backend answered",
                               response,
                               proxyRequest(serviceName, settled, now),
                               cb.state # OPEN /\ cb'.state = OPEN)
        /\ errorRun' = IF settled.threw
                         THEN IF streak' = NoStreak \/ errorRun = NoStreak
                                THEN NoStreak
                                ELSE errorRun + 1
                         ELSE streak'
        /\ lastStats' = NoStats
        /\ UNCHANGED gwFixed

\* The backend does not answer: axios rejects, execute records the failure,
\* proxyRequest's catch block responds.
BackendSilent(c) ==
  \E code \in AxiosErrorCodes :
    LET settled == makeServiceRequest(AxiosRejected(code))
    IN  /\ OperationFails(c)
        /\ lastReq' = Finished(IF code = "ECONNABORTED"
                                 THEN "backend timeout"
                                 ELSE "backend unreachable",
                               NoBackend,
                               proxyRequest(serviceName, settled, now),
                               cb.state # OPEN /\ cb'.state = OPEN)
        /\ errorRun' = NoStreak
        /\ lastStats' = NoStats
        /\ UNCHANGED gwFixed

\* A request on a path no route matches: the catch-all answers 404.
NoRouteRequest ==
  /\ lastReq' = Finished("no matching route", NoBackend,
                         [ sent |-> <<Send(404, {}, [ error |-> "Not Found",
                                                       message |-> "Route not found",
                                                       availableServices |-> Services,
                                                       timestamp |-> now ])>>,
                           escaped |-> FALSE ],
                         FALSE)
  /\ lastOp' = Op("no route", cb.state, "", 0)
  /\ lastStats' = NoStats
  /\ UNCHANGED <<variant, options, cb, now, calls, streak, episodeSuccesses, trippedAt, tally,
                 errorRun, gwFixed>>

\* POST /circuit-breakers/:serviceName/trip for this route's breaker.
TripEndpoint ==
  /\ Trip
  /\ lastReq' = Finished("trip", NoBackend,
                         [ sent |-> <<Send(200, {}, [message |-> "has been tripped"])>>,
                           escaped |-> FALSE ],
                         FALSE)
  /\ errorRun' = streak'
  /\ lastStats' = NoStats
  /\ UNCHANGED gwFixed

\* POST /circuit-breakers/:serviceName/reset for this route's breaker.
ResetEndpoint ==
  /\ ForceReset
  /\ lastReq' = Finished("reset", NoBackend,
                         [ sent |-> <<Send(200, {}, [message |-> "has been reset"])>>,
                           escaped |-> FALSE ],
                         FALSE)
  /\ errorRun' = streak'
  /\ lastStats' = NoStats
  /\ UNCHANGED gwFixed

\* GET /circuit-breakers: the stats of the route's breaker.
StatsEndpoint ==
  /\ GetStats
  /\ lastReq' = Finished("stats", NoBackend,
                         [ sent |-> <<Send(200, {}, lastStats')>>, escaped |-> FALSE ],
                         FALSE)
  /\ UNCHANGED <<errorRun, gwFixed>>

GatewayTick ==
  /\ Tick
  /\ lastReq' = NoRequest
  /\ lastStats' = NoStats
  /\ UNCHANGED <<errorRun, gwFixed>>

GatewayNext ==
  \/ \E c \in Callers : ProxyRequestBegin(c)
  \/ \E c \in Callers : BackendAnswers(c)
  \/ \E c \in Callers : BackendSilent(c)
  \/ NoRouteRequest
  \/ TripEndpoint
  \/ ResetEndpoint
  \/ StatsEndpoint
  \/ GatewayTick

GatewaySpec == GatewayInit /\ [][GatewayNext]_vars

\* ------------------------------------------------- ApiGateway, all routes
\* The gateway's map of route breakers under the endpoints that read or name
\* several of them: /health, /circuit-breakers/:serviceName/trip and /reset.

\* What these endpoints and the routes' own traffic leave alone.
oneRouteVars ==
  <<variant, options, cb, calls, lastOp, streak, episodeSuccesses, trippedAt, tally,
    lastStats, errorRun, serviceName, task>>

\* The :serviceName of a request: a key of config.services, or another name.
RequestedNames == Services \cup {"nosuch"}

\* An administrative request whose handling has finished.
AdminFinished(kind, name, sent) ==
  [kind |-> kind, target |-> name, sent |-> sent, escaped |-> FALSE]

\* GET /health over the breakers of the map: the response sent.
health_closedOnly(breakers, t) ==
  LET stats == [s \in DOMAIN breakers |->
                  SimpleCircuitBreaker_getStats(breakers[s], s)]
      healthyServices == {s \in DOMAIN breakers : stats[s].state = CLOSED}
      unhealthyServices == {s \in DOMAIN breakers : stats[s].state # CLOSED}
      overallHealth == IF Cardinality(unhealthyServices) = 0 THEN "healthy" ELSE "degraded"
  IN  Send(IF overallHealth = "healthy" THEN 200 ELSE 503, {},
           [ status |-> overallHealth,
             timestamp |-> t,
             services |-> Services,
             circuitBreakers |-> stats,
             summary |-> [ totalServices |-> Cardinality(DOMAIN breakers),
                           healthyServices |-> Cardinality(healthyServices),
                           unhealthyServices |-> Cardinality(unhealthyServices),
                           degradedServices |-> unhealthyServices ] ])

health(breakers, t) ==
  LET stats == [s \in DOMAIN breakers |->
                  SimpleCircuitBreaker_getStats(breakers[s], s)]
      healthyServices == {s \in DOMAIN breakers : stats[s].state # OPEN}
      unhealthyServices == {s \in DOMAIN breakers : stats[s].state = OPEN}
      overallHealth == IF Cardinality(unhealthyServices) = 0 THEN "healthy" ELSE "degraded"
  IN  Send(IF overallHealth = "healthy" THEN 200 ELSE 503, {},
           [ status |-> overallHealth,
             timestamp |-> t,
             services |-> Services,
             circuitBreakers |-> stats,
             summary |-> [ totalServices |-> Cardinality(DOMAIN breakers),
                           healthyServices |-> Cardinality(healthyServices),
                           unhealthyServices |-> Cardinality(unhealthyServices),
                           degradedServices |-> unhealthyServices ] ])

\* POST /circuit-breakers/:serviceName/trip: the map afterwards and the
\* response sent.
tripEndpoint_everyRoute(breakers, name, t) ==
  IF name \notin DOMAIN breakers
    THEN [ breakers |-> breakers,
           sent |-> <<Send(404, {}, [error |-> <<"Circuit breaker for ", name, " not found">>])>> ]
    ELSE [ breakers |-> [s \in DOMAIN breakers |-> SimpleCircuitBreaker_trip(breakers[s], t)],
           sent |-> <<Send(200, {}, [message |-> <<"Circuit breaker for ", name,
                                                   " has been tripped">>])>> ]

tripEndpoint(breakers, name, t) ==
  IF name \notin DOMAIN breakers
    THEN [ breakers |-> breakers,
           sent |-> <<Send(404, {}, [error |-> <<"Circuit breaker for ", name, " not found">>])>> ]
    ELSE [ breakers |-> [breakers EXCEPT ![name] = SimpleCircuitBreaker_trip(@, t)],
           sent |-> <<Send(200, {}, [message |-> <<"Circuit breaker for ", name,
                                                   " has been tripped">>])>> ]

\* POST /circuit-breakers/:serviceName/reset.
resetEndpoint(breakers, name) ==
  IF name \notin DOMAIN breakers
    THEN [ breakers |-> breakers,
           sent |-> <<Send(404, {}, [error |-> <<"Circuit breaker for ", name, " not found">>])>> ]
    ELSE [ breakers |-> [breakers EXCEPT ![name] = SimpleCircuitBreaker_forceReset(@)],
           sent |-> <<Send(200, {}, [message |-> <<"Circuit breaker for ", name,
                                                   " has been reset">>])>> ]

RoutesInit ==
  /\ variant = "SimpleCircuitBreaker"
  /\ options = GatewayOptions
  /\ cb = NewBreaker
  /\ now = StartTime
  /\ calls = [c \in Callers |-> "idle"]
  /\ lastOp = Op("new", CLOSED, "", 0)
  /\ streak = 0
  /\ episodeSuccesses = 0
  /\ trippedAt = null
  /\ tally = NoTally
  /\ lastStats = NoStats
  /\ errorRun = 0
  /\ serviceName = "none"
  /\ circuitBreakers = [s \in Services |-> NewBreaker]
  /\ task = NoTask
  /\ lastReq = NoRequest

HealthEndpoint ==
  /\ lastReq' = AdminFinished("health", "", <<health(circuitBreakers, now)>>)
  /\ UNCHANGED <<oneRouteVars, now, circuitBreakers>>

RouteTripEndpoint ==
  \E name \in RequestedNames :
    LET r == tripEndpoint(circuitBreakers, name, now)
    IN  /\ circuitBreakers' = r.breakers
        /\ lastReq' = AdminFinished("trip", name, r.sent)
        /\ UNCHANGED <<oneRouteVars, now>>

RouteResetEndpoint ==
  \E name \in RequestedNames :
    LET r == resetEndpoint(circuitBreakers, name)
    IN  /\ circuitBreakers' = r.breakers
        /\ lastReq' = AdminFinished("reset", name, r.sent)
        /\ UNCHANGED <<oneRouteVars, now>>

\* A request proxied to route `name` and handled to its end with no other step
\* of the gateway in between: admission, the backend's answer or silence, the
\* breaker's bookkeeping, the response.
RouteRequest ==
  \E name \in Services, axiosResult \in
        {AxiosResolved(BackendResponse(st)) : st \in BackendStatuses}
          \cup {AxiosRejected(code) : code \in AxiosErrorCodes} :
    LET b == circuitBreakers[name]
        r == execute_admission("SimpleCircuitBreaker", b, now, options)
        settled == makeServiceRequest(axiosResult)
    IN  /\ r.ok => b.totalRequests < MaxRouteRequests
        /\ circuitBreakers' =
             [circuitBreakers EXCEPT ![name] =
                IF ~r.ok THEN r.b
                ELSE IF settled.threw
                  THEN SimpleCircuitBreaker_onFailure(r.b, now, options)
                  ELSE SimpleCircuitBreaker_onSuccess(r.b, options)]
        /\ lastReq' =
             IF ~r.ok
               THEN Finished("breaker open", NoBackend,
                             proxyRequest(name, Returned(onFallback(name, now)), now), FALSE)
               ELSE Finished("proxied",
                             IF axiosResult.resolved THEN axiosResult.response ELSE NoBackend,
                             proxyRequest(name, settled, now),
                             r.b.state # OPEN /\ circuitBreakers'[name].state = OPEN)
        /\ UNCHANGED <<oneRouteVars, now>>

RoutesTick ==
  /\ now < StartTime + MaxTicks
  /\ now' = now + 1
  /\ lastReq' = NoRequest
  /\ UNCHANGED <<oneRouteVars, circuitBreakers>>

RoutesNext ==
  \/ HealthEndpoint
  \/ RouteTripEndpoint
  \/ RouteResetEndpoint
  \/ RouteRequest
  \/ RoutesTick

RoutesSpec == RoutesInit /\ [][RoutesNext]_vars

\* ------------------------------------ executeWithRetry, safeUpload, safeDelete
\* DatabaseCircuitBreaker.executeWithRetry and S3CircuitBreaker.executeWithRetry
\* (one text), and the S3 breaker's safeUpload and safeDelete around it.

DefaultMaxRetries == 3

DefaultRetryDelay == 1000

RetryVariants == {"DatabaseCircuitBreaker", "S3CircuitBreaker"}

\* The functions of a breaker class that go through executeWithRetry.
RetryFunctions(v) ==
  IF v = "S3CircuitBreaker"
    THEN {"executeWithRetry", "safeUpload", "safeDelete"}
    ELSE {"executeWithRetry"}

\* error.name of what execute throws when it refuses, and of what a failed
\* operation throws.
RefusalErrorName(v) ==
  IF refusal(v) = ThrowCircuitBreakerError THEN "CircuitBreakerError" ELSE "Error"

OperationErrorName == "Error"

\* safeUpload/safeDelete around executeWithRetry: what the caller gets.
safe_rethrows(fn, thrown) ==
  IF thrown = "" THEN "return result" ELSE "throw error"

safe(fn, thrown) ==
  IF thrown = ""
    THEN "return result"
    ELSE IF fn \in {"safeUpload", "safeDelete"}
           THEN IF thrown = "CircuitBreakerError" THEN "return null" ELSE "throw error"
           ELSE "throw error"

\* The call ends: executeWithRetry returns (thrown = "") or throws.
Settled(tk, thrown) ==
  [tk EXCEPT !.phase = "settled", !.thrown = thrown, !.outcome = safe(tk.fn, thrown)]

\* The catch block of executeWithRetry's loop, entered with an error of the
\* given name.
executeWithRetry_catch_retriesRefusal(tk, errorName, maxRetries) ==
  IF tk.attempt = maxRetries
    THEN Settled(tk, errorName)
    ELSE [tk EXCEPT !.phase = "backoff", !.waits = Append(@, tk.retryDelay)]

executeWithRetry_catch(tk, errorName, maxRetries) ==
  IF tk.attempt = maxRetries \/ errorName = "CircuitBreakerError"
    THEN Settled(tk, errorName)
    ELSE [tk EXCEPT !.phase = "backoff", !.waits = Append(@, tk.retryDelay)]

RetryInit ==
  /\ variant \in RetryVariants
  /\ options \in CircuitBreakerOptions
  /\ cb = NewBreaker
  /\ now = StartTime
  /\ calls = [c \in Callers |-> "idle"]
  /\ lastOp = Op("new", CLOSED, "", 0)
  /\ streak = 0
  /\ episodeSuccesses = 0
  /\ trippedAt = null
  /\ tally = NoTally
  /\ lastStats = NoStats
  /\ errorRun = 0
  /\ serviceName = "none"
  /\ circuitBreakers = NoBreakers
  /\ lastReq = NoRequest
  /\ task = NoTask

\* What a step of the retrying caller leaves alone.
retryFixed == <<lastStats, errorRun, serviceName, circuitBreakers, lastReq>>

\* return await this.execute(operation) of attempt tk.attempt: refused, or the
\* operation invoked and awaited.
Attempt(tk) ==
  /\ ExecuteBegin(1)
  /\ task' = IF calls'[1] = "running"
               THEN [tk EXCEPT !.phase = "operation", !.invoked = @ + 1]
               ELSE executeWithRetry_catch(tk, RefusalErrorName(variant), DefaultMaxRetries)
  /\ UNCHANGED retryFixed

\* A call with the default arguments, up to the first await.
RetryCall ==
  /\ task.phase \in {"idle", "settled"}
  /\ \E fn \in RetryFunctions(variant) :
       Attempt([NoTask EXCEPT !.fn = fn, !.attempt = 1, !.retryDelay = DefaultRetryDelay])

AttemptSucceeds ==
  /\ task.phase = "operation"
  /\ OperationSucceeds(1)
  /\ task' = Settled(task, "")
  /\ UNCHANGED retryFixed

AttemptFails ==
  /\ task.phase = "operation"
  /\ OperationFails(1)
  /\ task' = executeWithRetry_catch(task, OperationErrorName, DefaultMaxRetries)
  /\ UNCHANGED retryFixed

\* setTimeout(resolve, retryDelay) fires: retryDelay *= 2, the next attempt.
BackoffEnds ==
  /\ task.phase = "backoff"
  /\ Attempt([task EXCEPT !.retryDelay = @ * 2, !.attempt = @ + 1])

RetryNext ==
  \/ RetryCall
  \/ AttemptSucceeds
  \/ AttemptFails
  \/ BackoffEnds
  \/ Trip /\ UNCHANGED <<retryFixed, task>>
  \/ ForceReset /\ UNCHANGED <<retryFixed, task>>
  \/ Tick /\ UNCHANGED <<retryFixed, task>>

RetrySpec == RetryInit /\ [][RetryNext]_vars

\* ------------------------------------------------ StripeWithCircuitBreaker
\* createCharge and createRefund behind the PaymentCircuitBreaker, and the
\* create-payment route that calls createCharge.

\* The options of the 'stripe-api' breaker; its timeout of 30000 ms is
\* MaxTimeout steps of the clock.
StripeOptions == [failureThreshold |-> 3, successThreshold |-> 2, timeout |-> MaxTimeout]

StripeFunctions == {"createCharge", "createRefund"}

CreatePaymentRoute == "POST /api/payments"

\* What the processor may throw: error.type and error.code.
ProcessorErrors ==
  { [name |-> "Error", type |-> "StripeCardError", code |-> "card_declined"],
    [name |-> "Error", type |-> "StripeConnectionError", code |-> "undefined"] }

\* The catch block inside the guarded operation: the error rethrown.
enhancedError(fn, error) ==
  IF fn = "createRefund"
    THEN [ name |-> "StripeRefundError", originalError |-> error ]
    ELSE [ name |-> "StripeChargeError", originalError |-> error,
           stripeErrorType |-> error.type, stripeErrorCode |-> error.code ]

\* The error execute throws when it refuses.
CircuitBreakerError == [name |-> "CircuitBreakerError"]

Unavailable ==
  "throw BadRequestError: Payment processing is temporarily unavailable. Please try again in a few minutes."

PaymentFailed ==
  "throw BadRequestError: Payment failed: <error.message>. Please check your payment details and try again."

ProcessingFailed ==
  "throw BadRequestError: Payment processing failed. Please try again later."

\* The catch block of the create-payment route.
createPayment_catch_generic(error) == ProcessingFailed

createPayment_catch(error) ==
  IF error.name = "CircuitBreakerError" THEN Unavailable
  ELSE IF error.name = "StripeChargeError" THEN PaymentFailed
  ELSE ProcessingFailed

\* What the caller of fn gets when createCharge/createRefund throws `error`.
StripeThrown(tk, error) ==
  [tk EXCEPT !.phase = "settled", !.thrown = error.name, !.error = error,
             !.outcome = IF tk.fn = CreatePaymentRoute
                           THEN createPayment_catch(error)
                           ELSE "throw error"]

\* The processor has rejected the call: execute has rethrown the operation's
\* enhanced error.
stripe_rejected_replays(tk, error) ==
  [tk EXCEPT !.phase = "operation", !.invoked = @ + 1, !.cause = error]

stripe_rejected(tk, error) ==
  StripeThrown([tk EXCEPT !.cause = error],
               enhancedError(IF tk.fn = CreatePaymentRoute THEN "createCharge" ELSE tk.fn,
                             error))

PaymentInit ==
  /\ variant = "PaymentCircuitBreaker"
  /\ options = StripeOptions
  /\ cb = NewBreaker
  /\ now = StartTime
  /\ calls = [c \in Callers |-> "idle"]
  /\ lastOp = Op("new", CLOSED, "", 0)
  /\ streak = 0
  /\ episodeSuccesses = 0
  /\ trippedAt = null
  /\ tally = NoTally
  /\ lastStats = NoStats
  /\ errorRun = 0
  /\ serviceName = "none"
  /\ circuitBreakers = NoBreakers
  /\ lastReq = NoRequest
  /\ task = NoTask

\* this.circuitBreaker.execute(...) of a call of fn: refused, or the processor
\* called and awaited.
StripeExecute(fn) ==
  /\ ExecuteBegin(1)
  /\ task' = IF calls'[1] = "running"
               THEN [NoTask EXCEPT !.fn = fn, !.phase = "operation", !.invoked = 1]
               ELSE StripeThrown([NoTask EXCEPT !.fn = fn], CircuitBreakerError)
  /\ UNCHANGED retryFixed

\* createCharge or createRefund called directly.
StripeCall ==
  /\ task.phase \in {"idle", "settled"}
  /\ \E fn \in StripeFunctions : StripeExecute(fn)

\* POST /api/payments: the listing is missing or not payable by this user and
\* the route throws before any charge, or it calls stripe.createCharge.
CreatePayment ==
  /\ task.phase \in {"idle", "settled"}
  /\ \/ StripeExecute(CreatePaymentRoute)
     \/ /\ \E e \in {"throw NotFoundError", "throw BadRequestError: not payable"} :
             task' = [NoTask EXCEPT !.fn = CreatePaymentRoute, !.phase = "settled",
                                    !.outcome = e]
        /\ lastOp' = Op("no charge", cb.state, "", 0)
        /\ UNCHANGED <<variant, options, cb, now, calls, streak, episodeSuccesses,
                       trippedAt, tally, retryFixed>>

\* The processor accepts: execute returns the charge or refund; the route then
\* records the payment and publishes it, either of which may fail.
ProcessorAccepts ==
  /\ task.phase = "operation"
  /\ OperationSucceeds(1)
  /\ \E recorded \in BOOLEAN :
       /\ (task.fn # CreatePaymentRoute) => recorded
       /\ task' = [task EXCEPT !.phase = "settled",
                               !.outcome =
                                 IF task.fn # CreatePaymentRoute THEN "return result"
                                 ELSE IF recorded THEN "res.status(201).send"
                                 ELSE createPayment_catch([name |-> "Error"])]
  /\ UNCHANGED retryFixed

\* The processor rejects: the operation rethrows the enhanced error, execute
\* records the failure and rethrows.
ProcessorRejects ==
  /\ task.phase = "operation"
  /\ OperationFails(1)
  /\ \E error \in ProcessorErrors : task' = stripe_rejected(task, error)
  /\ UNCHANGED retryFixed

PaymentNext ==
  \/ StripeCall
  \/ CreatePayment
  \/ ProcessorAccepts
  \/ ProcessorRejects
  \/ Tick /\ UNCHANGED <<retryFixed, task>>

PaymentSpec == PaymentInit /\ [][PaymentNext]_vars

\* ---------------------------------------------------- EmailCreatedListener
\* onMessage and testEmailConnectivity behind the EmailCircuitBreaker.

\* The options of the 'email-smtp' breaker; its timeout of 120000 ms is
\* MaxTimeout steps of the clock.
EmailOptions == [failureThreshold |-> 3, successThreshold |-> 2, timeout |-> MaxTimeout]

EmailFunctions == {"onMessage", "testEmailConnectivity"}

\* The call has run past `await emailCircuitBreaker.execute(...)` without an
\* exception: onMessage acknowledges, testEmailConnectivity returns true.
email_try_end(tk) ==
  IF tk.fn = "onMessage"
    THEN [tk EXCEPT !.phase = "settled", !.acks = @ + 1, !.outcome = "return undefined"]
    ELSE [tk EXCEPT !.phase = "settled", !.outcome = "return true"]

\* catch (error): onMessage logs and acknowledges, testEmailConnectivity
\* returns false.
email_catch_rethrows(tk, errorName) ==
  [tk EXCEPT !.phase = "settled", !.thrown = errorName, !.outcome = "throw error"]

email_catch(tk, errorName) ==
  IF tk.fn = "onMessage"
    THEN [tk EXCEPT !.phase = "settled", !.thrown = errorName, !.acks = @ + 1,
                    !.outcome = "return undefined"]
    ELSE [tk EXCEPT !.phase = "settled", !.thrown = errorName,
                    !.outcome = "return false"]

\* GET /health of the email service.
EmailHealthRoute == "GET /health (email)"

\* The end of the /health handler: res.status(...).json with the result of
\* testEmailConnectivity(), `done` being that call settled.
emailHealth_respond(done) ==
  [done EXCEPT !.fn = EmailHealthRoute,
               !.connectivityTest = IF done.outcome = "return true" THEN "true" ELSE "false",
               !.outcome = "res.status(status).json"]

\* The call tk has left its await through the end of the try block or through
\* the catch block; the /health handler is a call of testEmailConnectivity
\* followed by the response.
EmailAfter(tk, through) ==
  LET inner == IF tk.fn = EmailHealthRoute
                 THEN [tk EXCEPT !.fn = "testEmailConnectivity"]
                 ELSE tk
      done == IF through = "try"
                THEN email_try_end(inner)
                ELSE email_catch(inner, OperationErrorName)
  IN  IF tk.fn = EmailHealthRoute THEN emailHealth_respond(done) ELSE done

EmailInit ==
  /\ variant = "EmailCircuitBreaker"
  /\ options = EmailOptions
  /\ cb = NewBreaker
  /\ now = StartTime
  /\ calls = [c \in Callers |-> "idle"]
  /\ lastOp = Op("new", CLOSED, "", 0)
  /\ streak = 0
  /\ episodeSuccesses = 0
  /\ trippedAt = null
  /\ tally = NoTally
  /\ lastStats = NoStats
  /\ errorRun = 0
  /\ serviceName = "none"
  /\ circuitBreakers = NoBreakers
  /\ lastReq = NoRequest
  /\ task = NoTask

\* onMessage or testEmailConnectivity up to its first await: execute refuses
\* by returning undefined, so the call runs on to the end of its try block; or
\* the SMTP operation is started and awaited.
EmailCall ==
  /\ task.phase \in {"idle", "settled"}
  /\ ExecuteBegin(1)
  /\ \E fn \in EmailFunctions :
       task' = IF calls'[1] = "running"
                 THEN [NoTask EXCEPT !.fn = fn, !.phase = "operation", !.invoked = 1]
                 ELSE email_try_end([NoTask EXCEPT !.fn = fn])
  /\ UNCHANGED retryFixed

\* transporter.sendMail / transporter.verify resolves.
SmtpSucceeds ==
  /\ task.phase = "operation"
  /\ OperationSucceeds(1)
  /\ task' = EmailAfter(task, "try")
  /\ UNCHANGED retryFixed

\* transporter.sendMail / transporter.verify rejects: execute records the
\* failure and rethrows into the catch block.
SmtpFails ==
  /\ task.phase = "operation"
  /\ OperationFails(1)
  /\ task' = EmailAfter(task, "catch")
  /\ UNCHANGED retryFixed

\* GET /health up to its await: getEmailHealthStatus() reads isHealthy() and
\* getStats(), then testEmailConnectivity() calls execute.
EmailHealthEndpoint ==
  /\ task.phase \in {"idle", "settled"}
  /\ lastStats' = getStats(variant, cb, serviceName)
  /\ ExecuteBegin(1)
  /\ LET tk == [NoTask EXCEPT !.fn = EmailHealthRoute,
                              !.status = IF isHealthy(variant, cb) THEN 200 ELSE 503]
     IN  task' = IF calls'[1] = "running"
                   THEN [tk EXCEPT !.phase = "operation", !.invoked = 1]
                   ELSE EmailAfter(tk, "try")
  /\ UNCHANGED <<errorRun, serviceName, circuitBreakers, lastReq>>

\* getHealthStatus: isHealthy() and getStats().
EmailHealthStatus ==
  /\ GetStats
  /\ UNCHANGED <<gwVars, task>>

EmailNext ==
  \/ EmailCall
  \/ SmtpSucceeds
  \/ SmtpFails
  \/ EmailHealthStatus
  \/ EmailHealthEndpoint
  \/ Tick /\ UNCHANGED <<retryFixed, task>>

EmailSpec == EmailInit /\ [][EmailNext]_vars

\* --------------------------------------------------------- syncExistingData
\* The bid service's start-up sync behind the ServiceCircuitBreaker.

\* The options of the 'listings-service' breaker; its timeout of 30000 ms is
\* MaxTimeout steps of the clock.
ListingsServiceOptions ==
  [failureThreshold |-> 3, successThreshold |-> 2, timeout |-> MaxTimeout]

\* What axios.get resolves with under its default validateStatus: a 2xx status
\* and a body that is an array of some listings or is not iterable.
ResolvedStatuses == {200, 204}

NotIterable == [iterable |-> FALSE, length |-> 0]

ListingsBodies == {[iterable |-> TRUE, length |-> n] : n \in 0..MaxListings} \cup {NotIterable}

\* The promise of syncExistingData is fulfilled.
Resolved == "resolved"

\* The outer catch: logs, returns for a CircuitBreakerError, falls off the end
\* otherwise.
sync_catch_rethrows(tk, errorName) ==
  [tk EXCEPT !.phase = "settled", !.thrown = errorName,
             !.outcome = IF errorName = "CircuitBreakerError" THEN Resolved
                         ELSE "rejected"]

sync_catch(tk, errorName) ==
  [tk EXCEPT !.phase = "settled", !.thrown = errorName, !.outcome = Resolved]

\* listings.length and the for-of loop over a body of n listings; a body that
\* is not iterable raises a TypeError caught by the outer catch.
sync_loop(tk, body) ==
  IF ~body.iterable THEN sync_catch(tk, "TypeError")
  ELSE IF body.length = 0 THEN [tk EXCEPT !.phase = "settled", !.outcome = Resolved]
  ELSE [tk EXCEPT !.phase = "writing", !.todo = body.length]

SyncInit ==
  /\ variant = "ServiceCircuitBreaker"
  /\ options = ListingsServiceOptions
  /\ cb = NewBreaker
  /\ now = StartTime
  /\ calls = [c \in Callers |-> "idle"]
  /\ lastOp = Op("new", CLOSED, "", 0)
  /\ streak = 0
  /\ episodeSuccesses = 0
  /\ trippedAt = null
  /\ tally = NoTally
  /\ lastStats = NoStats
  /\ errorRun = 0
  /\ serviceName = "none"
  /\ circuitBreakers = NoBreakers
  /\ lastReq = NoRequest
  /\ task = NoTask

\* syncExistingData up to its first await: execute refuses and the outer catch
\* returns, or axios.get is sent and awaited.
SyncExistingData ==
  /\ task.phase \in {"idle", "settled"}
  /\ ExecuteBegin(1)
  /\ task' = IF calls'[1] = "running"
               THEN [NoTask EXCEPT !.fn = "syncExistingData", !.phase = "operation",
                                   !.invoked = 1]
               ELSE sync_catch([NoTask EXCEPT !.fn = "syncExistingData"],
                               "CircuitBreakerError")
  /\ UNCHANGED retryFixed

\* axios.get resolves: status 200 returns response.data and the loop starts;
\* another 2xx status makes the operation throw.
ListingsAnswers ==
  /\ task.phase = "operation"
  /\ \E status \in ResolvedStatuses, body \in ListingsBodies :
       IF status = 200
         THEN /\ OperationSucceeds(1)
              /\ task' = sync_loop(task, body)
         ELSE /\ OperationFails(1)
              /\ task' = sync_catch(task, OperationErrorName)
  /\ UNCHANGED retryFixed

\* axios.get rejects: no connection, timeout, or a status outside 2xx.
ListingsFails ==
  /\ task.phase = "operation"
  /\ OperationFails(1)
  /\ task' = sync_catch(task, OperationErrorName)
  /\ UNCHANGED retryFixed

\* One turn of the loop: findOne and create/update succeed, or one of them
\* rejects and the inner catch logs and continues.
SyncListing ==
  /\ task.phase = "writing"
  /\ \E written \in BOOLEAN :
       task' = [task EXCEPT !.todo = @ - 1,
                            !.failedWrites = IF written THEN @ ELSE @ + 1,
                            !.phase = IF task.todo = 1 THEN "settled" ELSE @,
                            !.outcome = IF task.todo = 1 THEN Resolved ELSE @]
  /\ UNCHANGED <<cbVars, retryFixed>>

\* getListingsServiceHealth: isHealthy() and getStats().
ListingsServiceHealth ==
  /\ GetStats
  /\ UNCHANGED <<gwVars, task>>

SyncNext ==
  \/ SyncExistingData
  \/ ListingsAnswers
  \/ ListingsFails
  \/ SyncListing
  \/ ListingsServiceHealth
  \/ Tick /\ UNCHANGED <<retryFixed, task>>

SyncSpec == SyncInit /\ [][SyncNext]_vars

\* ------------------------------------------------- a breaker run without end
\* The breaker of Spec with calls arriving and the clock advancing for ever.
\* The counters and the clock are kept in a finite range without changing any
\* comparison the code makes: failureCount and successCount are compared only
\* with a threshold, so they are kept at most one above the largest threshold;
\* totalRequests and totalFailures are compared only with 0; the clock is compared
\* only through Date.now() - lastFailureTime >= timeout, so once the clock is at
\* the top of its range a further millisecond moves lastFailureTime back
\* instead, no further than timeout.  The history is not followed.

Least(a, b) == IF a <= b THEN a ELSE b

Bounded(b) ==
  [b EXCEPT !.failureCount = Least(@, MaxFailureThreshold + 1),
            !.successCount = Least(@, MaxSuccessThreshold + 1),
            !.totalRequests = Least(@, 1),
            !.totalFailures = Least(@, 1)]

LastTime == StartTime + MaxTicks

liveFixed ==
  <<variant, options, streak, episodeSuccesses, trippedAt, tally, lastStats, errorRun,
    serviceName, lastReq, circuitBreakers, task>>

LiveExecute(c) ==
  /\ calls[c] = "idle"
  /\ NextToCall(c)
  /\ LET r == execute_admission(variant, cb, now, options)
     IN  /\ cb' = Bounded(r.b)
         /\ calls' = IF r.ok THEN [calls EXCEPT ![c] = "running"] ELSE calls
         /\ lastOp' = IF r.ok
                        THEN Op("admit", cb.state, "", 0)
                        ELSE Op("refuse", cb.state, refusal(variant), 0)
  /\ UNCHANGED <<now, liveFixed>>

LiveSucceeds(c) ==
  /\ calls[c] = "running"
  /\ NextToComplete(c)
  /\ cb' = Bounded(onSuccess(variant, cb, options))
  /\ calls' = [calls EXCEPT ![c] = "idle"]
  /\ lastOp' = Op("success", cb.state, "return result", 0)
  /\ UNCHANGED <<now, liveFixed>>

LiveFails(c) ==
  /\ calls[c] = "running"
  /\ NextToComplete(c)
  /\ cb' = Bounded(onFailure(variant, cb, now, options))
  /\ calls' = [calls EXCEPT ![c] = "idle"]
  /\ lastOp' = Op("failure", cb.state, "throw error", 0)
  /\ UNCHANGED <<now, liveFixed>>

LiveTrip ==
  /\ HasAdmin(variant)
  /\ cb' = trip(variant, cb, now)
  /\ lastOp' = Op("trip", cb.state, "", 0)
  /\ UNCHANGED <<now, calls, liveFixed>>

LiveForceReset ==
  /\ HasAdmin(variant)
  /\ cb' = forceReset(variant, cb)
  /\ lastOp' = Op("forceReset", cb.state, "", 0)
  /\ UNCHANGED <<now, calls, liveFixed>>

\* A millisecond passes.
LiveTick ==
  /\ IF now < LastTime
       THEN now' = now + 1 /\ cb' = cb
       ELSE /\ now' = now
            /\ cb' = IF cb.lastFailureTime = null THEN cb
                     ELSE [cb EXCEPT !.lastFailureTime =
                                        Max(@ - 1, LastTime - options.timeout)]
  /\ lastOp' = Op("tick", cb.state, "", 0)
  /\ UNCHANGED <<calls, liveFixed>>

LiveArrival == \E c \in Callers : LiveExecute(c)

LiveCompletion == \E c \in Callers : LiveSucceeds(c) \/ LiveFails(c)

LiveNext ==
  \/ LiveArrival
  \/ LiveCompletion
  \/ LiveTrip
  \/ LiveForceReset
  \/ LiveTick

\* Calls keep arriving, every operation settles, the clock keeps advancing.
LiveSpec ==
  /\ Init
  /\ [][LiveNext]_vars
  /\ WF_vars(LiveArrival)
  /\ WF_vars(LiveCompletion)
  /\ WF_vars(LiveTick)

TypeOK ==
  /\ variant \in Variants
  /\ options \in CircuitBreakerOptions \cup {GatewayOptions}
  /\ cb.state \in CircuitState
  /\ cb.failureCount \in Nat /\ cb.successCount \in Nat
  /\ cb.totalRequests \in 0..RequestCap /\ cb.totalFailures \in Nat
  /\ cb.lastFailureTime \in {null} \cup (StartTime..(StartTime + MaxTicks))
  /\ now \in StartTime..(StartTime + MaxTicks)
  /\ calls \in [Callers -> {"idle", "running"}]

\* ================================================================== claims
Elapsed == now - cb.lastFailureTime

Running == {c \in Callers : calls[c] = "running"}

\* C1: in every reachable state of every breaker variant, whatever the
\* interleaving of execute calls, trip() and forceReset(), totalFailures is at
\* most totalRequests.
C1_FailuresWithinRequests == cb.totalFailures <= cb.totalRequests

\* Failures recorded while the other calls are still in flight, after a trip.
C1_Witness ==
  /\ cb.totalFailures >= 1
  /\ cb.totalFailures = cb.totalRequests - Cardinality(Running)
  /\ Running # {}
  /\ lastOp.op = "failure"

\* C2: from CLOSED with failureCount = 0 and no concurrent calls, after
\* failureThreshold failed execute calls in a row the state is OPEN, and the
\* next execute call made before timeout ms have passed is refused with the
\* distinct breaker-open error, its operation not started.
C2_OpensThenRefusesWithError ==
  /\ (lastOp.op = "failure" /\ streak = options.failureThreshold) => cb.state = OPEN
  /\ ( /\ lastOp.op \in {"admit", "refuse"}
       /\ streak = options.failureThreshold
       /\ lastOp.from = OPEN
       /\ Elapsed < options.timeout )
     => (lastOp.op = "refuse" /\ lastOp.ret = ThrowCircuitBreakerError)

\* C3: a guarded operation is started only while the state is CLOSED or
\* HALF_OPEN; an execute call that finds the state OPEN with less than timeout
\* ms elapsed since lastFailureTime does not start its operation.
C3_StartedOnlyWhenNotOpen ==
  /\ lastOp.op = "admit" => cb.state \in {CLOSED, HALF_OPEN}
  /\ ( /\ lastOp.op \in {"admit", "refuse"}
       /\ lastOp.from = OPEN
       /\ Elapsed < options.timeout )
     => (lastOp.op = "refuse" /\ cb.state = OPEN)

\* A call refused while another call, admitted earlier, is still in flight.
C3_Witness ==
  /\ lastOp.op = "refuse"
  /\ lastOp.from = OPEN
  /\ Elapsed < options.timeout
  /\ Running # {}

\* C4: in OPEN, an execute call made at lastFailureTime + timeout - 1 is
\* refused; one made at lastFailureTime + timeout or later is admitted, the
\* state being HALF_OPEN when its operation starts.
C4_TimeoutBoundary ==
  (lastOp.op \in {"admit", "refuse"} /\ lastOp.from = OPEN) =>
    /\ Elapsed = options.timeout - 1 => (lastOp.op = "refuse" /\ cb.state = OPEN)
    /\ Elapsed >= options.timeout => (lastOp.op = "admit" /\ cb.state = HALF_OPEN)

\* A call admitted exactly timeout ms after the last failure.
C4_Witness ==
  /\ lastOp.op = "admit"
  /\ lastOp.from = OPEN
  /\ Elapsed = options.timeout
  /\ cb.state = HALF_OPEN

\* C5: in HALF_OPEN, the successThreshold-th successful call in a row moves
\* the breaker to CLOSED with failureCount = 0 and successCount = 0; fewer
\* successes leave it HALF_OPEN.
C5_TrialSuccessesClose ==
  (lastOp.op = "success" /\ lastOp.from = HALF_OPEN) =>
    /\ lastOp.n <= options.successThreshold
    /\ lastOp.n = options.successThreshold =>
         (cb.state = CLOSED /\ cb.failureCount = 0 /\ cb.successCount = 0)
    /\ lastOp.n < options.successThreshold => cb.state = HALF_OPEN

\* The second of two trial successes closes a breaker whose successThreshold is 2.
C5_Witness ==
  /\ lastOp.op = "success"
  /\ lastOp.from = HALF_OPEN
  /\ lastOp.n = 2
  /\ options.successThreshold = 2
  /\ cb.state = CLOSED

\* C6: a failed call completing in HALF_OPEN moves the breaker to OPEN, leaves
\* successCount = 0 and sets lastFailureTime to the time of the failure.
C6_TrialFailureReopens ==
  (lastOp.op = "failure" /\ lastOp.from = HALF_OPEN) =>
    (cb.state = OPEN /\ cb.successCount = 0 /\ cb.lastFailureTime = now)

\* C7: forceReset(), whatever the state and the counts before, yields
\* state = CLOSED, failureCount = 0 and successCount = 0.
C7_ForceResetZeroes ==
  lastOp.op = "forceReset" =>
    (cb.state = CLOSED /\ cb.failureCount = 0 /\ cb.successCount = 0)

\* C8: a successful call completing in CLOSED sets failureCount to
\* max(0, failureCount - 1).
C8_SuccessDecrementsByOne ==
  [][ (lastOp'.op = "success" /\ cb.state = CLOSED)
        => cb'.failureCount = Max(0, cb.failureCount - 1) ]_vars

\* C9: a refused execute call fails with the distinct breaker-open error; it
\* neither returns a value nor throws an error a dependency could have thrown.
C9_RefusalIsDistinctError ==
  lastOp.op = "refuse" => lastOp.ret = ThrowCircuitBreakerError

\* C10: isHealthy() returns true if and only if the state is not OPEN.
C10_HealthyIffNotOpen ==
  lastOp.op = "isHealthy" => (lastOp.ret = "return true" <=> cb.state # OPEN)

\* C11: trip(), whatever the state and the counts before, yields state = OPEN
\* with lastFailureTime = the time of the call; every execute call made less
\* than timeout ms after a trip that has not been reset since is refused.
C11_TripOpensAndHolds ==
  [][ /\ lastOp'.op = "trip" => (cb'.state = OPEN /\ cb'.lastFailureTime = now')
      /\ ( /\ trippedAt # null
           /\ now - trippedAt < options.timeout
           /\ lastOp'.op \in {"admit", "refuse"} )
         => (lastOp'.op = "refuse" /\ cb'.state = OPEN) ]_vars

\* A call refused one millisecond before the timeout of a trip made with no
\* failure recorded.
C11_Witness ==
  /\ lastOp.op = "refuse"
  /\ trippedAt # null
  /\ now - trippedAt = options.timeout - 1
  /\ cb.totalFailures = 0
  /\ cb.state = OPEN

\* C12: when an admitted operation fails, execute adds exactly one to
\* totalFailures, applies the failure rule of the state it finds (one more
\* failure, lastFailureTime = now; OPEN from HALF_OPEN, and from CLOSED once
\* failureCount reaches failureThreshold) and rethrows the operation's error;
\* when the operation succeeds, execute returns its result and counts no failure.
C12_FailureCountedAndRethrown ==
  [][ /\ lastOp'.op = "failure" =>
           /\ cb'.totalFailures = cb.totalFailures + 1
           /\ cb'.totalRequests = cb.totalRequests
           /\ cb'.failureCount = cb.failureCount + 1
           /\ cb'.lastFailureTime = now
           /\ cb'.state =
                IF \/ cb.state = HALF_OPEN
                   \/ (cb.state = CLOSED /\ cb.failureCount + 1 >= options.failureThreshold)
                  THEN OPEN
                  ELSE cb.state
           /\ lastOp'.ret = "throw error"
      /\ lastOp'.op = "success" =>
           /\ cb'.totalFailures = cb.totalFailures
           /\ cb'.totalRequests = cb.totalRequests
           /\ lastOp'.ret = "return result" ]_vars

\* A second failure, of a trial call, reopens the breaker and is rethrown.
C12_Witness ==
  /\ lastOp.op = "failure"
  /\ lastOp.from = HALF_OPEN
  /\ lastOp.ret = "throw error"
  /\ cb.totalFailures = 2
  /\ cb.state = OPEN

\* C13: under any interleaving of concurrent calls, every change of a breaker's
\* state is CLOSED->OPEN (by a failure that brings failureCount to
\* failureThreshold, or by trip), OPEN->HALF_OPEN (by an admission with at least
\* timeout ms elapsed), HALF_OPEN->CLOSED (by a success that brings successCount
\* to successThreshold), HALF_OPEN->OPEN (by a failure or by trip), or any
\* state->CLOSED by forceReset; so CLOSED->HALF_OPEN never happens and
\* OPEN->CLOSED happens only through forceReset.
C13_OnlyAllowedTransitions ==
  [][ cb'.state # cb.state =>
        \/ /\ cb.state = CLOSED /\ cb'.state = OPEN
           /\ \/ lastOp'.op = "failure" /\ cb'.failureCount = options.failureThreshold
              \/ lastOp'.op = "trip"
        \/ /\ cb.state = OPEN /\ cb'.state = HALF_OPEN
           /\ lastOp'.op = "admit"
           /\ cb.lastFailureTime # null
           /\ now - cb.lastFailureTime >= options.timeout
        \/ /\ cb.state = HALF_OPEN /\ cb'.state = CLOSED
           /\ lastOp'.op = "success"
           /\ cb.successCount + 1 = options.successThreshold
        \/ /\ cb.state = HALF_OPEN /\ cb'.state = OPEN
           /\ lastOp'.op \in {"failure", "trip"}
        \/ /\ cb'.state = CLOSED
           /\ lastOp'.op = "forceReset" ]_vars

\* A breaker closed by the success of a call admitted before it opened, while a
\* trial call is still in flight.
C13_Witness ==
  /\ lastOp.op = "success"
  /\ lastOp.from = HALF_OPEN
  /\ cb.state = CLOSED
  /\ Running # {}
  /\ cb.totalFailures >= 1

\* C14: getStats() and isHealthy() are pure reads: in any state, OPEN with the
\* timeout elapsed included, they change neither the state nor a counter nor
\* lastFailureTime, and getStats reports exactly the current state,
\* failureCount, successCount, totalRequests, totalFailures and lastFailureTime.
C14_ReadsArePure ==
  [][ /\ lastOp'.op \in {"getStats", "isHealthy"} => cb' = cb
      /\ lastOp'.op = "getStats" =>
           /\ lastStats'.state = cb.state
           /\ lastStats'.failureCount = cb.failureCount
           /\ lastStats'.successCount = cb.successCount
           /\ lastStats'.totalRequests = cb.totalRequests
           /\ lastStats'.totalFailures = cb.totalFailures
           /\ lastStats'.lastFailureTime = cb.lastFailureTime ]_vars

\* getStats() of an OPEN breaker whose timeout has elapsed: it stays OPEN.
C14_Witness ==
  /\ lastOp.op = "getStats"
  /\ lastStats.state = OPEN
  /\ cb.state = OPEN
  /\ cb.lastFailureTime # null
  /\ Elapsed >= options.timeout
  /\ lastStats.totalFailures >= 1

\* The response a finished request was answered with.
Answer == lastReq.sent[1]

FallbackFields == {"error", "message", "serviceName", "timestamp", "retryAfter"}

\* C15: gateway: a request for a route whose breaker is OPEN with less than
\* timeout elapsed is answered with HTTP 503 and a body whose serviceName is the
\* route's configured name, and the backend is not called.
C15_OpenRouteAnswers503 ==
  [][ ( /\ lastOp'.op \in {"admit", "refuse"}
        /\ cb.state = OPEN
        /\ now - cb.lastFailureTime < options.timeout )
      => ( /\ lastReq'.kind = "breaker open"
           /\ Len(lastReq'.sent) = 1
           /\ lastReq'.sent[1].status = 503
           /\ lastReq'.sent[1].body.serviceName = serviceName
           /\ lastReq'.backend = NoBackend
           /\ calls' = calls
           /\ cb'.totalRequests = cb.totalRequests ) ]_vars

\* A request refused by a breaker that failureThreshold failed calls opened.
C15_Witness ==
  /\ lastReq.kind = "breaker open"
  /\ lastOp.op = "refuse"
  /\ cb.state = OPEN
  /\ cb.totalFailures = GatewayFailureThreshold
  /\ cb.totalRequests = GatewayFailureThreshold
  /\ Elapsed = options.timeout - 1
  /\ Answer.body.serviceName = "listings"
  /\ serviceName = "listings"

\* C16: gateway: a proxied request whose own failure moves the route's breaker
\* to OPEN is answered with HTTP 503 and the standardized body {error, message,
\* serviceName, timestamp, retryAfter}, as a request that finds the breaker OPEN.
C16_OpeningCallAnswers503 ==
  ( /\ lastReq.kind \in {"backend 5xx", "backend unreachable", "backend timeout"}
    /\ lastReq.opened )
  => ( /\ Len(lastReq.sent) = 1
       /\ Answer.status = 503
       /\ DOMAIN Answer.body = FallbackFields
       /\ Answer.body.serviceName = serviceName )

\* C17: gateway: a proxied call the backend answers with a 4xx status leaves the
\* route breaker's state, failureCount and successCount as they were, the
\* breaker being CLOSED or HALF_OPEN.
C17_ClientErrorLeavesBreaker ==
  [][ ( /\ lastReq'.kind = "backend answered"
        /\ lastReq'.backend.status >= 400
        /\ lastReq'.backend.status < 500
        /\ cb.state \in {CLOSED, HALF_OPEN} )
      => ( /\ cb'.state = cb.state
           /\ cb'.failureCount = cb.failureCount
           /\ cb'.successCount = cb.successCount ) ]_vars

\* C18: gateway: on a successful proxied call (backend status below 500) the
\* response sent to the caller carries the backend's status, the backend's
\* response headers (content-encoding apart) and the backend's body.
C18_SuccessForwardedVerbatim ==
  ( /\ lastReq.kind \in {"backend answered", "backend 5xx"}
    /\ lastReq.backend.status < 500 )
  => ( /\ Len(lastReq.sent) = 1
       /\ Answer.status = lastReq.backend.status
       /\ (lastReq.backend.headers \ {"content-encoding"}) \subseteq Answer.headers
       /\ Answer.body = lastReq.backend.data )

\* C19: gateway: a proxied call the backend answers with a status >= 500 is a
\* breaker failure: failureCount and totalFailures each grow by one,
\* lastFailureTime is set to the time of the failure, and failureThreshold such
\* answers in a row from CLOSED open the breaker.
C19_ServerErrorIsFailure ==
  [][ ( /\ lastReq'.kind \in {"backend answered", "backend 5xx"}
        /\ lastReq'.backend.status >= 500 )
      => ( /\ cb'.failureCount = cb.failureCount + 1
           /\ cb'.totalFailures = cb.totalFailures + 1
           /\ cb'.lastFailureTime = now
           /\ errorRun' = options.failureThreshold => cb'.state = OPEN ) ]_vars

\* The failureThreshold-th answer >= 500 in a row: the breaker opens.
C19_Witness ==
  /\ lastReq.kind = "backend 5xx"
  /\ lastReq.backend.status = 500
  /\ errorRun = GatewayFailureThreshold
  /\ cb.failureCount = GatewayFailureThreshold
  /\ cb.state = OPEN
  /\ lastReq.opened

\* C20: gateway: whatever the request and its outcome (no matching route,
\* breaker open, backend 4xx, backend 5xx, backend unreachable, backend
\* timeout), its handling ends with exactly one HTTP response sent and no
\* exception leaving proxyRequest.
C20_ExactlyOneResponse ==
  lastReq.kind \in { "no matching route", "breaker open", "backend answered",
                     "backend 5xx", "backend unreachable", "backend timeout" }
  => (Len(lastReq.sent) = 1 /\ ~lastReq.escaped)

\* A backend timeout that reopens the breaker while another request is in flight.
C20_Witness ==
  /\ lastReq.kind = "backend timeout"
  /\ lastReq.opened
  /\ Len(lastReq.sent) = 1
  /\ Answer.status = 503
  /\ Running # {}

\* C21: gateway: a proxied call that gets no HTTP response at all (connection
\* refused, or the client's timeout), admitted by a breaker that was not OPEN,
\* is answered 503 with the 'service is currently unavailable' body, which is
\* not the breaker-open body, and is counted as a failure of the breaker.
C21_NoResponseAnswers503 ==
  [][ lastReq'.kind \in {"backend unreachable", "backend timeout"}
      => ( /\ Len(lastReq'.sent) = 1
           /\ lastReq'.sent[1].status = 503
           /\ lastReq'.sent[1].body.error = "Service Unavailable"
           /\ lastReq'.sent[1].body.message =
                <<serviceName, " service is currently unavailable">>
           /\ lastReq'.sent[1].body # onFallback(serviceName, now).data
           /\ DOMAIN lastReq'.sent[1].body # FallbackFields
           /\ cb'.failureCount = cb.failureCount + 1
           /\ cb'.totalFailures = cb.totalFailures + 1
           /\ cb'.lastFailureTime = now ) ]_vars

\* A refused connection on a CLOSED breaker that stays CLOSED.
C21_Witness ==
  /\ lastReq.kind = "backend unreachable"
  /\ lastOp.op = "failure"
  /\ lastOp.from = CLOSED
  /\ cb.state = CLOSED
  /\ cb.totalFailures = 2
  /\ Answer.status = 503

OpenRoutes == {s \in DOMAIN circuitBreakers : circuitBreakers[s].state = OPEN}

\* C22: gateway: GET /health answers status 'healthy' with HTTP 200 if and
\* only if no route breaker is OPEN at that moment, and 'degraded' with HTTP
\* 503 otherwise; summary.unhealthyServices is the number of OPEN route breakers.
C22_HealthyIffNoneOpen ==
  lastReq.kind = "health"
  => ( /\ Len(lastReq.sent) = 1
       /\ (Answer.status = 200 /\ Answer.body.status = "healthy") <=> OpenRoutes = {}
       /\ (Answer.status = 503 /\ Answer.body.status = "degraded") <=> OpenRoutes # {}
       /\ Answer.body.summary.unhealthyServices = Cardinality(OpenRoutes) )

\* /health with one route OPEN past its timeout and another HALF_OPEN.
C22_Witness ==
  /\ lastReq.kind = "health"
  /\ Answer.status = 503
  /\ Answer.body.summary.unhealthyServices = 1
  /\ circuitBreakers["auth"].state = OPEN
  /\ now - circuitBreakers["auth"].lastFailureTime >= options.timeout
  /\ circuitBreakers["listings"].state = HALF_OPEN

\* C23: gateway: POST /circuit-breakers/:service/trip and /reset with a
\* configured service name succeed and leave only that route's breaker changed,
\* OPEN after trip, CLOSED with failureCount = successCount = 0 after reset;
\* with an unknown name the response is 404 and no breaker is changed.
C23_AdminNamesOneRoute ==
  [][ lastReq'.kind \in {"trip", "reset"}
      => IF lastReq'.target \in Services
           THEN /\ Len(lastReq'.sent) = 1
                /\ lastReq'.sent[1].status = 200
                /\ \A s \in Services \ {lastReq'.target} :
                     circuitBreakers'[s] = circuitBreakers[s]
                /\ lastReq'.kind = "trip" =>
                     circuitBreakers'[lastReq'.target].state = OPEN
                /\ lastReq'.kind = "reset" =>
                     /\ circuitBreakers'[lastReq'.target].state = CLOSED
                     /\ circuitBreakers'[lastReq'.target].failureCount = 0
                     /\ circuitBreakers'[lastReq'.target].successCount = 0
           ELSE /\ Len(lastReq'.sent) = 1
                /\ lastReq'.sent[1].status = 404
                /\ circuitBreakers' = circuitBreakers ]_vars

\* A trip of one route while the other route is HALF_OPEN with a success counted.
C23_Witness ==
  /\ lastReq.kind = "trip"
  /\ lastReq.target = "auth"
  /\ circuitBreakers["auth"].state = OPEN
  /\ circuitBreakers["listings"].state = HALF_OPEN
  /\ circuitBreakers["listings"].successCount = 1

\* The waits of executeWithRetry's backoff, in order.
Backoff == <<DefaultRetryDelay, 2 * DefaultRetryDelay>>

\* C24: executeWithRetry of the database and S3 breakers, default arguments:
\* the operation is invoked at most 3 times per call, 1000 ms are waited before
\* the second attempt and 2000 ms before the third, and an attempt the breaker
\* refuses ends the call at once with the CircuitBreakerError: no wait, no
\* further attempt.
C24_ThreeAttemptsBackoff ==
  [][ /\ task'.invoked <= 3
      /\ task'.attempt <= 3
      /\ Len(task'.waits) <= 2
      /\ \A i \in 1..Len(task'.waits) : task'.waits[i] = Backoff[i]
      /\ task'.phase = "operation" => Len(task'.waits) = task'.attempt - 1
      /\ lastOp'.op = "refuse" =>
           /\ task'.phase = "settled"
           /\ task'.thrown = "CircuitBreakerError"
           /\ Len(task'.waits) = task'.attempt - 1
      /\ (task.phase = "settled" /\ task' # task) => task'.attempt = 1 ]_vars

\* The third attempt refused by the breaker the first two opened.
C24_Witness ==
  /\ task.fn = "executeWithRetry"
  /\ task.phase = "settled"
  /\ task.thrown = "CircuitBreakerError"
  /\ task.attempt = 3
  /\ task.invoked = 2
  /\ task.waits = <<1000, 2000>>
  /\ lastOp.op = "refuse"
  /\ cb.state = OPEN

SafeFunctions == {"safeUpload", "safeDelete"}

\* C25: object storage fails open on a refusal: when the S3 breaker refuses an
\* attempt with CircuitBreakerError, safeUpload and safeDelete return null
\* instead of raising, and the refused attempt does not invoke the S3 operation.
C25_RefusedUploadReturnsNull ==
  [][ (lastOp'.op = "refuse" /\ task'.fn \in SafeFunctions)
      => ( /\ task'.phase = "settled"
           /\ task'.outcome = "return null"
           /\ task'.invoked = IF task'.attempt = 1 THEN 0 ELSE task.invoked
           /\ calls'[1] = "idle" ) ]_vars

\* safeUpload refused at its first attempt by a tripped breaker.
C25_Witness ==
  /\ task.fn = "safeUpload"
  /\ task.phase = "settled"
  /\ task.outcome = "return null"
  /\ task.attempt = 1
  /\ task.invoked = 0
  /\ lastOp.op = "refuse"
  /\ cb.state = OPEN

\* C26: safeUpload and safeDelete never raise: whether the breaker refuses the
\* call or the S3 operation fails on every attempt, they complete with a
\* result or with null.
C26_SafeNeverRaises ==
  (task.fn \in SafeFunctions /\ task.phase = "settled")
  => task.outcome \in {"return result", "return null"}

\* C27: payments are never replayed: a call of createCharge or createRefund
\* invokes the payment processor at most once, whether it succeeds, fails or is
\* refused by the breaker (a refused call invokes it not at all).
C27_ChargeInvokedAtMostOnce ==
  [][ task'.fn \in StripeFunctions \cup {CreatePaymentRoute}
      => ( /\ task'.invoked <= 1
           /\ task'.phase = "operation" => (task'.invoked = 1 /\ calls'[1] = "running")
           /\ lastOp'.op = "refuse" => (task'.phase = "settled" /\ task'.invoked = 0)
           /\ lastOp'.op \in {"success", "failure"} =>
                (task'.phase = "settled" /\ task'.invoked = 1) ) ]_vars

\* A charge that failed, opening the breaker, and was not replayed.
C27_Witness ==
  /\ task.fn = "createCharge"
  /\ task.phase = "settled"
  /\ task.thrown = "StripeChargeError"
  /\ task.invoked = 1
  /\ lastOp.op = "failure"
  /\ cb.state = OPEN

\* C28: in the create-payment route a charge refused by the open payment
\* breaker is surfaced as the 'payment temporarily unavailable' response, which
\* is not the response to a processor error; and a processor error reaches the
\* route wrapped in an error that keeps the processor's error type and code.
C28_UnavailableIsDistinct ==
  (task.fn = CreatePaymentRoute /\ task.phase = "settled")
  => ( /\ task.thrown = "CircuitBreakerError" =>
            (task.outcome = Unavailable /\ task.invoked = 0)
       /\ task.thrown = "StripeChargeError" =>
            /\ task.outcome = PaymentFailed
            /\ task.outcome # Unavailable
            /\ task.error.originalError = task.cause
            /\ task.error.stripeErrorType = task.cause.type
            /\ task.error.stripeErrorCode = task.cause.code
       /\ task.outcome = Unavailable => task.thrown = "CircuitBreakerError" )

\* A payment refused by the breaker that three failed charges opened.
C28_Witness ==
  /\ task.fn = CreatePaymentRoute
  /\ task.phase = "settled"
  /\ task.outcome = Unavailable
  /\ lastOp.op = "refuse"
  /\ cb.state = OPEN
  /\ cb.totalFailures = 3

\* C29: every EmailCreated message handled by onMessage is acknowledged
\* exactly once and onMessage does not raise, whether the SMTP send succeeds,
\* fails, or the open breaker refuses; a failed send is still recorded by the
\* breaker as a failure.
C29_AcknowledgedExactlyOnce ==
  [][ task'.fn = "onMessage"
      => ( /\ task'.phase = "operation" => task'.acks = 0
           /\ task'.phase = "settled" =>
                (task'.acks = 1 /\ task'.outcome = "return undefined")
           /\ lastOp'.op \in {"refuse", "success", "failure"} => task'.phase = "settled"
           /\ lastOp'.op = "failure" =>
                /\ cb'.totalFailures = cb.totalFailures + 1
                /\ cb'.lastFailureTime = now ) ]_vars

\* The message whose failed send opened the breaker: acknowledged, no raise.
C29_Witness ==
  /\ task.fn = "onMessage"
  /\ task.phase = "settled"
  /\ task.acks = 1
  /\ task.thrown = OperationErrorName
  /\ lastOp.op = "failure"
  /\ lastOp.from = CLOSED
  /\ cb.state = OPEN

\* C30: syncExistingData is never fatal to its caller: whether the breaker
\* refuses, the listings-service request fails, or a per-listing database
\* write fails, the returned promise resolves; and a refused or failed request
\* is not retried within the call (at most one HTTP GET per call).
C30_SyncNeverFatal ==
  [][ task'.fn = "syncExistingData"
      => ( /\ task'.invoked <= 1
           /\ task'.phase = "settled" => task'.outcome = Resolved
           /\ lastOp'.op = "refuse" => (task'.phase = "settled" /\ task'.invoked = 0)
           /\ lastOp'.op = "failure" => (task'.phase = "settled" /\ task'.invoked = 1)
           /\ task'.phase = "writing" => calls'[1] = "idle" ) ]_vars

\* A sync that resolved although one of its database writes failed.
C30_Witness ==
  /\ task.fn = "syncExistingData"
  /\ task.phase = "settled"
  /\ task.outcome = Resolved
  /\ task.failedWrites = 1
  /\ task.invoked = 1

\* C31: the health surface is read-only: serving a health request changes no
\* breaker's state, counters or lastFailureTime, and never makes the breaker
\* admit or record a call.
C31_HealthIsReadOnly ==
  [][ task'.fn = EmailHealthRoute => (cb' = cb /\ calls' = calls) ]_vars

\* C40: testEmailConnectivity returns true only when the SMTP verify operation
\* was actually executed and succeeded; it does not return true while the
\* email breaker is OPEN and refusing calls.
C40_TrueOnlyAfterVerify ==
  ( /\ task.fn = "testEmailConnectivity"
    /\ task.phase = "settled"
    /\ task.outcome = "return true" )
  => (task.invoked = 1 /\ task.thrown = "")

\* C32: with several execute calls in flight at once, the admission check with
\* the totalRequests increment, and each call's bookkeeping after completion,
\* take effect atomically, so no update is lost: totalRequests is the number
\* of admitted calls and totalFailures the number of admitted calls whose
\* operation failed (in particular whenever no call is in flight), while the
\* guarded operations themselves overlap.
C32_NoLostUpdate ==
  /\ cb.totalRequests = tally.admitted
  /\ cb.totalFailures = tally.failed
  /\ AllIdle(calls) => cb.totalFailures <= cb.totalRequests

\* Two operations in flight at once, after a call that failed.
C32_Witness ==
  /\ Cardinality(Running) = 2
  /\ tally.admitted = 3
  /\ tally.failed = 1
  /\ lastOp.op = "admit"

\* C33: during one HALF_OPEN episode the call that triggers the transition is
\* admitted as the trial, and no more than successThreshold guarded operations
\* are admitted before the verdict, however many callers arrive while earlier
\* trials are still in flight.
C33_TrialsLimited ==
  /\ (lastOp.op = "admit" /\ lastOp.from = OPEN) => (cb.state = HALF_OPEN /\ tally.trials = 1)
  /\ cb.state = HALF_OPEN => tally.trials <= options.successThreshold

\* C34: a breaker moves HALF_OPEN -> CLOSED only after successThreshold
\* successful completions of trial calls admitted during that HALF_OPEN
\* episode; the success of a call admitted before the breaker opened does not
\* count.  (So at least successThreshold calls were admitted in the episode.)
C34_OnlyTrialsClose ==
  [][ (cb.state = HALF_OPEN /\ cb'.state = CLOSED /\ lastOp'.op = "success")
        => tally.trials >= options.successThreshold ]_vars

\* C35: an execute call that is refused leaves state, failureCount,
\* successCount, totalRequests, totalFailures and lastFailureTime unchanged:
\* totalRequests counts only admitted calls, and a refused call does not
\* postpone the moment the breaker becomes eligible for a trial.
C35_RefusalChangesNothing ==
  [][ lastOp'.op = "refuse" =>
        /\ cb' = cb
        /\ calls' = calls
        /\ cb'.totalRequests = tally'.admitted
        /\ \A t \in now..(StartTime + MaxTicks) :
             canExecute(variant, cb', t, options).ok = canExecute(variant, cb, t, options).ok ]_vars

\* A call refused one millisecond before a breaker opened by failures becomes
\* eligible, with nothing in flight.
C35_Witness ==
  /\ lastOp.op = "refuse"
  /\ cb.state = OPEN
  /\ cb.totalFailures >= 1
  /\ Elapsed = options.timeout - 1
  /\ AllIdle(calls)
  /\ cb.totalRequests = cb.totalFailures

\* C36: in every reachable state of every breaker variant, state = CLOSED
\* implies failureCount < failureThreshold, also when failures of calls
\* admitted earlier complete after a forceReset or after HALF_OPEN -> CLOSED.
C36_ClosedBelowThreshold ==
  cb.state = CLOSED => cb.failureCount < options.failureThreshold

\* A failure recorded in CLOSED after forceReset wiped the failure before it:
\* both calls failed, the threshold is 2, and the breaker is still CLOSED.
C36_Witness ==
  /\ lastOp.op = "failure"
  /\ lastOp.from = CLOSED
  /\ cb.state = CLOSED
  /\ options.failureThreshold = 2
  /\ cb.failureCount = 1
  /\ cb.totalFailures = 2
  /\ cb.totalRequests = 2

\* C37: after trip(), every execute call is refused without invoking its
\* operation until timeout ms have elapsed since the trip, unless forceReset
\* is called, even if calls admitted before the trip complete in the
\* meantime: a late success never moves the breaker out of OPEN, and a late
\* failure can only postpone the first trial, never advance it.
C37_TripHoldsThroughLateCompletions ==
  [][ trippedAt # null =>
        /\ cb.state = OPEN
        /\ cb.lastFailureTime >= trippedAt
        /\ lastOp'.op \in {"success", "failure"} =>
             (cb'.state = OPEN /\ cb'.lastFailureTime >= cb.lastFailureTime)
        /\ cb'.state # OPEN =>
             \/ lastOp'.op = "forceReset"
             \/ lastOp'.op = "admit" /\ now - trippedAt >= options.timeout
        /\ (lastOp'.op \in {"admit", "refuse"} /\ now - trippedAt < options.timeout) =>
             (lastOp'.op = "refuse" /\ calls' = calls /\ cb'.state = OPEN) ]_vars

\* The success of a call admitted before the trip, completing while the trip
\* still holds: the breaker stays OPEN.
C37_Witness ==
  /\ lastOp.op = "success"
  /\ lastOp.from = OPEN
  /\ trippedAt # null
  /\ now - trippedAt < options.timeout
  /\ cb.state = OPEN
  /\ cb.successCount >= options.successThreshold

\* C38: if from some point on every guarded operation succeeds, execute calls
\* keep arriving, the clock keeps advancing and trip() is no longer called,
\* then the breaker eventually reaches CLOSED and stays CLOSED from then on.
C38_EventuallyClosedForGood ==
  (<>[][lastOp'.op \notin {"failure", "trip"}]_vars) => <>[](cb.state = CLOSED)

\* A breaker closed by a trial success after it had recorded failures.
C38_Witness ==
  /\ lastOp.op = "success"
  /\ lastOp.from = HALF_OPEN
  /\ cb.state = CLOSED
  /\ cb.totalFailures >= 1
  /\ cb.lastFailureTime = LastTime - options.timeout
  /\ now = LastTime
  /\ AllIdle(calls)

\* C39: a breaker never leaves OPEN through the passage of time alone: the
\* OPEN -> HALF_OPEN transition happens only inside the admission check of an
\* execute call, so with no execute call and no forceReset the state stays
\* OPEN, and isHealthy and getStats keep reporting OPEN, arbitrarily long
\* after timeout has elapsed.
C39_OpenUntilAdmission ==
  [][ cb.state = OPEN =>
        /\ cb'.state # OPEN => lastOp'.op \in {"admit", "forceReset"}
        /\ cb'.state = HALF_OPEN => lastOp'.op = "admit"
        /\ lastOp'.op = "tick" => cb' = cb
        /\ lastOp'.op = "isHealthy" => (cb' = cb /\ lastOp'.ret = "return false")
        /\ lastOp'.op = "getStats" => (cb' = cb /\ lastStats'.state = OPEN) ]_vars

\* isHealthy() answering false later than timeout after the last failure.
C39_Witness ==
  /\ lastOp.op = "isHealthy"
  /\ lastOp.ret = "return false"
  /\ cb.state = OPEN
  /\ cb.lastFailureTime # null
  /\ Elapsed > options.timeout

====
